---- MODULE Spec2Model ----
(***************************************************************************)
(* Poster backfill pipeline of mpp-go (src/cli.go: fetchPoster,            *)
(* updatePosterInDB, fetchPostersConcurrently).                            *)
(*                                                                         *)
(* One run of fetchPostersConcurrently(db, workerCount, limit) is modelled *)
(* as a dispatcher goroutine (pc) and the worker goroutines it starts      *)
(* (wpc), communicating through the buffered channel imdbChan and the      *)
(* sync.WaitGroup wg.  The movies table and the OMDB service are the       *)
(* environment: a table keyed by IMDb_id and a nondeterministic response.  *)
(***************************************************************************)
EXTENDS Integers, Sequences, FiniteSets, TLC

(* ---------------------------- bounds ---------------------------------- *)

\* number of distinct IMDb ids the movies table may hold
NumIds == 3

\* largest workerCount a caller passes
MaxWorkers == 2

\* largest limit a caller passes
MaxLimit == 3

\* longest string given to MarshalJSON
MaxStrLen == 3

Ids == 1..NumIds

\* goroutine slots; one more than MaxWorkers so that a spawn loop that runs
\* once too often has a goroutine to start
Workers == 1..(MaxWorkers + 1)

WorkerCounts == (-1)..MaxWorkers

Limits == 0..MaxLimit

(* ---------------------------- strings --------------------------------- *)

\* a Go string is a sequence of one-character strings
NA_UPPER == <<"N", "/", "A">>

NA_LOWER == <<"n", "/", "a">>

NA_MIXED == <<"N", "/", "a">>

NA_MIXED2 == <<"n", "/", "A">>

URL_A == <<"u", "/", "1">>

URL_B == <<"U", "/", "2">>

OLD_URL == <<"o", "l", "d">>

EMPTY == <<>>

\* the values the Poster field of an OMDB answer takes in the model
PosterStrings == {EMPTY, NA_UPPER, NA_LOWER, NA_MIXED, NA_MIXED2, URL_A, URL_B}

\* unicode.ToLower on the letters the model uses
LowerChar(c) ==
    CASE c = "N" -> "n"
      [] c = "A" -> "a"
      [] c = "U" -> "u"
      [] OTHER -> c

\* the string left as it is
ToLowerNoop(s) == s

\* strings.ToLower
ToLower(s) == [i \in DOMAIN s |-> LowerChar(s[i])]

(* ---------------------------- storage --------------------------------- *)

\* sql.NullString: the Poster column
NullPoster == [Valid |-> FALSE, String |-> EMPTY]

SomePoster(s) == [Valid |-> TRUE, String |-> s]

\* a row of the movies table; present = FALSE: no row with that IMDb_id
NoRow == [present |-> FALSE, Title |-> EMPTY, Year |-> 0, Rating |-> 0,
          Poster |-> NullPoster]

\* a row as addMovie inserts it (Poster NULL), with the default flag values
NewRow == [present |-> TRUE, Title |-> <<"C">>, Year |-> 1894, Rating |-> 5,
           Poster |-> NullPoster]

InitialRows == {NoRow, NewRow, [NewRow EXCEPT !.Poster = SomePoster(OLD_URL)]}

\* the tables a run can start from: at most one row per IMDb_id
movieTables == [Ids -> InitialRows]

\* the rows matched by WHERE Poster IS NULL
Unset(tbl) == {id \in Ids : tbl[id].present /\ ~tbl[id].Poster.Valid}

Min(a, b) == IF a < b THEN a ELSE b

\* the elements of the set of ids S as a sequence, smallest first
RECURSIVE SeqOf(_)
SeqOf(S) ==
    IF S = {} THEN <<>>
    ELSE LET m == CHOOSE x \in S : \A y \in S : x <= y
         IN <<m>> \o SeqOf(S \ {m})

\* SELECT IMDb_id FROM movies WHERE Poster IS NULL LIMIT ?
\* the possible results: any min(lim, n) of the n matching rows.  The ids are
\* interchangeable labels, so each result is listed in one order only.
SelectMissing(tbl, lim) ==
    {SeqOf(S) : S \in {T \in SUBSET Unset(tbl) :
                         Cardinality(T) = Min(lim, Cardinality(Unset(tbl)))}}

\* UPDATE movies SET Poster = ? WHERE IMDb_id = ?
ExecUpdateAll(tbl, imdbID, posterURL) ==
    [id \in Ids |-> IF tbl[id].present
                    THEN [tbl[id] EXCEPT !.Poster = SomePoster(posterURL)]
                    ELSE tbl[id]]

\* an insert-or-replace in place of the UPDATE: an absent row is created
ExecUpsert(tbl, imdbID, posterURL) ==
    [id \in Ids |-> IF id = imdbID
                    THEN [tbl[id] EXCEPT !.present = TRUE,
                                         !.Poster = SomePoster(posterURL)]
                    ELSE tbl[id]]

\* the statement executed with its two arguments exchanged: no row has a
\* poster URL as its IMDb_id, so no row is matched and Exec returns nil
ExecUpdateSwappedArgs(tbl, imdbID, posterURL) == tbl

\* the statement with another column after SET: UPDATE movies SET Title = ?
ExecUpdateTitle(tbl, imdbID, posterURL) ==
    [id \in Ids |-> IF id = imdbID /\ tbl[id].present
                    THEN [tbl[id] EXCEPT !.Title = posterURL]
                    ELSE tbl[id]]

\* the statement with a test of the current value:
\* UPDATE movies SET Poster = ? WHERE IMDb_id = ? AND Poster IS NULL
ExecUpdateIfNull(tbl, imdbID, posterURL) ==
    [id \in Ids |-> IF id = imdbID /\ tbl[id].present /\ ~tbl[id].Poster.Valid
                    THEN [tbl[id] EXCEPT !.Poster = SomePoster(posterURL)]
                    ELSE tbl[id]]

ExecUpdate(tbl, imdbID, posterURL) ==
    [id \in Ids |-> IF id = imdbID /\ tbl[id].present
                    THEN [tbl[id] EXCEPT !.Poster = SomePoster(posterURL)]
                    ELSE tbl[id]]

(* ---------------------------- fetchPoster ----------------------------- *)

NilErr == "nil"

\* what http.Get and the body of the answer can be
Responses ==
    [transportOK : BOOLEAN, StatusCode : {200, 404, 500}, decodable : BOOLEAN,
     hasPoster : BOOLEAN, Poster : PosterStrings]

\* json Decode into OMDBAPIResponse: an absent field leaves the zero value
Decoded(resp) == IF resp.hasPoster THEN resp.Poster ELSE EMPTY

\* fetchPoster without the test result.Poster == ""
fetchPosterEmptyAllowed(resp) ==
    IF ~resp.transportOK THEN [posterURL |-> EMPTY, err |-> "transport"]
    ELSE IF resp.StatusCode # 200 THEN [posterURL |-> EMPTY, err |-> "status"]
    ELSE IF ~resp.decodable THEN [posterURL |-> EMPTY, err |-> "decode"]
    ELSE IF ToLower(Decoded(resp)) = NA_LOWER
         THEN [posterURL |-> EMPTY, err |-> "poster not found"]
    ELSE [posterURL |-> Decoded(resp), err |-> NilErr]

\* fetchPoster, as a function of the answer of the service
fetchPoster(resp) ==
    IF ~resp.transportOK THEN [posterURL |-> EMPTY, err |-> "transport"]
    ELSE IF resp.StatusCode # 200 THEN [posterURL |-> EMPTY, err |-> "status"]
    ELSE IF ~resp.decodable THEN [posterURL |-> EMPTY, err |-> "decode"]
    ELSE IF Decoded(resp) = EMPTY \/ ToLower(Decoded(resp)) = NA_LOWER
         THEN [posterURL |-> EMPTY, err |-> "poster not found"]
    ELSE [posterURL |-> Decoded(resp), err |-> NilErr]

NoFetch == [posterURL |-> EMPTY, err |-> "none"]

\* every result a fetchPoster call can have
FetchResults == {fetchPoster(resp) : resp \in Responses}

(* ---------------------------- state ----------------------------------- *)

VARIABLES
    movies,       \* the movies table: Ids -> row
    movies0,      \* the table when the run started
    workerCount,  \* parameter of fetchPostersConcurrently
    limit,        \* parameter of fetchPostersConcurrently
    pc,           \* position of the dispatcher goroutine
    rows,         \* result rows not yet read by rows.Next
    failure,      \* which read failed: "none", "query", "scan", "iter"
    imdbIDs,      \* the slice of selected ids
    imdbChan,     \* buffer of the channel
    chanCap,      \* capacity of the channel
    closed,       \* the channel has been closed
    wg,           \* the WaitGroup counter
    i,            \* counter of the spawn loop
    pushed,       \* number of ids sent so far
    ret,          \* return value: "none" while running, NilErr or "error"
    wpc,          \* position of each worker goroutine
    wid,          \* imdbID held by each worker
    wurl,         \* posterURL held by each worker
    recvCount,    \* per id: receives from the channel
    fetchResult,  \* per id: result of the last fetchPoster call
    fetchCount,   \* per id: fetchPoster calls
    updCount,     \* per id: updatePosterInDB calls
    updErr,       \* per id: result of the last updatePosterInDB call
    updRows,      \* per id: rows affected by the last UPDATE (discarded)
    sent,         \* the ids sent into the channel, in order
    run,          \* 1 in the first run, 2 in a second run
    firstSel,     \* second run: the ids the first run selected
    firstFailure, \* second run: the value of failure when the first run ended
    otherPc,      \* position of a concurrent command on the same table
    resp,         \* answer given to a direct fetchPoster call
    res,          \* result of that call
    ns,           \* a NullString given to MarshalJSON
    data,         \* the bytes MarshalJSON returned
    out,          \* the NullString UnmarshalJSON filled from data
    req,          \* a request to one of the other handlers
    reply         \* what the handler answered

vars == <<movies, movies0, workerCount, limit, pc, rows, failure, imdbIDs,
          imdbChan, chanCap, closed, wg, i, pushed, ret, wpc, wid, wurl,
          recvCount, fetchResult, fetchCount, updCount, updErr, updRows, sent,
          run,
          firstSel, firstFailure, otherPc, resp, res, ns, data, out, req,
          reply>>

dispVars == <<pc, rows, failure, imdbIDs, chanCap, i, pushed, ret, sent>>

workerVars == <<wpc, wid, wurl>>

histVars == <<recvCount, fetchResult, fetchCount, updCount, updErr, updRows>>

\* what lies outside one run of the pipeline
\* the variables of direct calls of the JSON methods and the other handlers
callVars == <<ns, data, out, req, reply>>

outerVars == <<run, firstSel, firstFailure, otherPc, resp, res, callVars>>

paramVars == <<movies0, workerCount, limit, outerVars>>

\* the value of resp before any direct call
NoResp == [transportOK |-> FALSE, StatusCode |-> 0, decodable |-> FALSE,
           hasPoster |-> FALSE, Poster |-> EMPTY]

\* no direct call made yet
NoCall == [op |-> "none"]

\* the start of a run, whatever the table
InitRest ==
    /\ workerCount \in WorkerCounts
    /\ limit \in Limits
    /\ pc = "query"
    /\ rows = <<>>
    /\ failure = "none"
    /\ imdbIDs = <<>>
    /\ imdbChan = <<>>
    /\ chanCap = 0
    /\ closed = FALSE
    /\ wg = 0
    /\ i = 0
    /\ pushed = 0
    /\ ret = "none"
    /\ wpc = [w \in Workers |-> "unstarted"]
    /\ wid = [w \in Workers |-> 0]
    /\ wurl = [w \in Workers |-> EMPTY]
    /\ recvCount = [id \in Ids |-> 0]
    /\ fetchResult = [id \in Ids |-> NoFetch]
    /\ fetchCount = [id \in Ids |-> 0]
    /\ updCount = [id \in Ids |-> 0]
    /\ updErr = [id \in Ids |-> "none"]
    /\ updRows = [id \in Ids |-> 0]
    /\ sent = <<>>
    /\ run = 1
    /\ firstSel = {}
    /\ firstFailure = "none"
    /\ otherPc = "idle"
    /\ resp = NoResp
    /\ res = NoFetch
    /\ ns = [Valid |-> FALSE, String |-> <<>>]
    /\ data = <<>>
    /\ out = [Valid |-> FALSE, String |-> <<>>, err |-> "none"]
    /\ req = NoCall
    /\ reply = NoCall

Init ==
    /\ movies \in movieTables
    /\ movies0 = movies
    /\ InitRest

(* ---------------------------- dispatcher ------------------------------ *)

\* db.Query fails: `return err` before anything is read
QueryFailsIgnored ==
    /\ pc = "query"
    /\ failure' = "query"
    /\ rows' = <<>>
    /\ pc' = "rows"
    /\ UNCHANGED <<movies, paramVars, sent, imdbIDs, imdbChan, chanCap, closed, wg, i,
                   pushed, ret, workerVars, histVars>>

QueryFails ==
    /\ pc = "query"
    /\ failure' = "query"
    /\ ret' = "error"
    /\ pc' = "done"
    /\ UNCHANGED <<movies, paramVars, sent, rows, imdbIDs, imdbChan, chanCap, closed,
                   wg, i, pushed, workerVars, histVars>>

\* db.Query succeeds: rows holds the result of the SELECT
QueryOK ==
    /\ pc = "query"
    /\ rows' \in SelectMissing(movies, limit)
    /\ pc' = "rows"
    /\ UNCHANGED <<movies, paramVars, sent, failure, imdbIDs, imdbChan, chanCap,
                   closed, wg, i, pushed, ret, workerVars, histVars>>

\* a buffer one slot short, make(chan string, len(imdbIDs)-1)
MakeChanCapOneShort(ids) == Len(ids) - 1

\* make(chan string, len(imdbIDs))
MakeChanCap(ids) == Len(ids)

\* a read loop that sends each id into the channel as soon as it is scanned
RowsScanStreaming ==
    /\ pc = "rows"
    /\ rows # <<>>
    /\ imdbIDs' = Append(imdbIDs, Head(rows))
    /\ imdbChan' = Append(imdbChan, Head(rows))
    /\ sent' = Append(sent, Head(rows))
    /\ rows' = Tail(rows)
    /\ UNCHANGED <<movies, paramVars, pc, failure, chanCap, closed,
                   wg, i, pushed, ret, workerVars, histVars>>

\* rows.Next() is true and rows.Scan succeeds: append the id
RowsScan ==
    /\ pc = "rows"
    /\ rows # <<>>
    /\ imdbIDs' = Append(imdbIDs, Head(rows))
    /\ rows' = Tail(rows)
    /\ UNCHANGED <<movies, paramVars, sent, pc, failure, imdbChan, chanCap, closed,
                   wg, i, pushed, ret, workerVars, histVars>>

\* rows.Next() is true and rows.Scan fails: `return err`
RowsScanFails ==
    /\ pc = "rows"
    /\ rows # <<>>
    /\ failure' = "scan"
    /\ ret' = "error"
    /\ pc' = "done"
    /\ UNCHANGED <<movies, paramVars, sent, rows, imdbIDs, imdbChan, chanCap, closed,
                   wg, i, pushed, workerVars, histVars>>

\* rows.Next() is false because the iteration failed: the loop ends as it
\* does at the end of the rows, and rows.Err() is never consulted
RowsIterFails ==
    /\ pc = "rows"
    /\ rows # <<>>
    /\ failure' = "iter"
    /\ chanCap' = MakeChanCap(imdbIDs)
    /\ pc' = "spawn"
    /\ UNCHANGED <<movies, paramVars, sent, rows, imdbIDs, imdbChan, closed, wg, i,
                   pushed, ret, workerVars, histVars>>

\* rows.Next() is false at the end of the rows; the channel is made
RowsEnd ==
    /\ pc = "rows"
    /\ rows = <<>>
    /\ chanCap' = MakeChanCap(imdbIDs)
    /\ pc' = "spawn"
    /\ UNCHANGED <<movies, paramVars, sent, rows, failure, imdbIDs, imdbChan, closed,
                   wg, i, pushed, ret, workerVars, histVars>>

\* the condition of the spawn loop, for i := 0; i < workerCount; i++
SpawnAgainInclusive(iv, wc) == iv <= wc

\* a spawn loop that starts one worker whatever workerCount is
SpawnAgainOneWorker(iv, wc) == iv < Min(1, wc)

SpawnAgain(iv, wc) == iv < wc

\* wg.Add(1); go func(workerID int) {...}(i + 1)
Spawn ==
    /\ pc = "spawn"
    /\ SpawnAgain(i, workerCount)
    /\ wg' = wg + 1
    /\ wpc' = [wpc EXCEPT ![i + 1] = "range"]
    /\ i' = i + 1
    /\ UNCHANGED <<movies, paramVars, sent, pc, rows, failure, imdbIDs, imdbChan,
                   chanCap, closed, pushed, ret, wid, wurl, histVars>>

SpawnEnd ==
    /\ pc = "spawn"
    /\ ~SpawnAgain(i, workerCount)
    /\ pc' = "push"
    /\ UNCHANGED <<movies, paramVars, sent, rows, failure, imdbIDs, imdbChan, chanCap,
                   closed, wg, i, pushed, ret, workerVars, histVars>>

\* a push loop that sends the first id of the slice in every iteration
PushFirstEveryTime ==
    /\ pc = "push"
    /\ pushed < Len(imdbIDs)
    /\ Len(imdbChan) < chanCap
    /\ imdbChan' = Append(imdbChan, imdbIDs[1])
    /\ sent' = Append(sent, imdbIDs[1])
    /\ pushed' = pushed + 1
    /\ UNCHANGED <<movies, paramVars, pc, rows, failure, imdbIDs, chanCap,
                   closed, wg, i, ret, workerVars, histVars>>

\* imdbChan <- imdbID: blocks while the buffer is full
Push ==
    /\ pc = "push"
    /\ pushed < Len(imdbIDs)
    /\ Len(imdbChan) < chanCap
    /\ imdbChan' = Append(imdbChan, imdbIDs[pushed + 1])
    /\ sent' = Append(sent, imdbIDs[pushed + 1])
    /\ pushed' = pushed + 1
    /\ UNCHANGED <<movies, paramVars, pc, rows, failure, imdbIDs, chanCap,
                   closed, wg, i, ret, workerVars, histVars>>

\* close(imdbChan) inside the push loop, after the first iteration
CloseInsideLoop ==
    /\ pc = "push"
    /\ pushed >= Min(1, Len(imdbIDs))
    /\ closed' = TRUE
    /\ pc' = "wait"
    /\ UNCHANGED <<movies, paramVars, sent, rows, failure, imdbIDs, imdbChan, chanCap,
                   wg, i, pushed, ret, workerVars, histVars>>

\* the push loop followed by wg.Wait() with no close(imdbChan) between
CloseForgotten ==
    /\ pc = "push"
    /\ pushed = Len(imdbIDs)
    /\ pc' = "wait"
    /\ UNCHANGED <<movies, paramVars, sent, rows, failure, imdbIDs, imdbChan, chanCap,
                   closed, wg, i, pushed, ret, workerVars, histVars>>

\* close(imdbChan), after the push loop
Close ==
    /\ pc = "push"
    /\ pushed = Len(imdbIDs)
    /\ closed' = TRUE
    /\ pc' = "wait"
    /\ UNCHANGED <<movies, paramVars, sent, rows, failure, imdbIDs, imdbChan, chanCap,
                   wg, i, pushed, ret, workerVars, histVars>>

\* wg.Wait() returns when the counter is zero
WaitReturnsAtOnce(n) == TRUE

WaitReturns(n) == n = 0

\* ids whose fetch or update ended with an error
FailedItems == {id \in Ids : fetchResult[id].err \notin {"none", NilErr}
                             \/ updErr[id] = "error"}

\* the value returned after wg.Wait()
ReturnValuePropagating(failed) == IF failed # {} THEN "error" ELSE NilErr

ReturnValue(failed) == NilErr

\* wg.Wait(); return nil
Wait ==
    /\ pc = "wait"
    /\ WaitReturns(wg)
    /\ ret' = ReturnValue(FailedItems)
    /\ pc' = "done"
    /\ UNCHANGED <<movies, paramVars, sent, rows, failure, imdbIDs, imdbChan, chanCap,
                   closed, wg, i, pushed, workerVars, histVars>>

(* ---------------------------- workers --------------------------------- *)

\* for imdbID := range imdbChan: receive the next id
WorkerRecv(w) ==
    /\ wpc[w] = "range"
    /\ imdbChan # <<>>
    /\ wid' = [wid EXCEPT ![w] = Head(imdbChan)]
    /\ imdbChan' = Tail(imdbChan)
    /\ wpc' = [wpc EXCEPT ![w] = "fetch"]
    /\ recvCount' = [recvCount EXCEPT ![Head(imdbChan)] = @ + 1]
    /\ UNCHANGED <<movies, paramVars, dispVars, closed, wg, wurl, fetchResult,
                   fetchCount, updCount, updErr, updRows>>

\* the loop ends but the WaitGroup is not told
WorkerExitNoDone(w) ==
    /\ wpc[w] = "range"
    /\ imdbChan = <<>>
    /\ closed
    /\ wpc' = [wpc EXCEPT ![w] = "exited"]
    /\ UNCHANGED <<movies, paramVars, dispVars, imdbChan, closed, wg, wid,
                   wurl, histVars>>

\* the channel is closed and drained: the loop ends, deferred wg.Done() runs
WorkerExit(w) ==
    /\ wpc[w] = "range"
    /\ imdbChan = <<>>
    /\ closed
    /\ wpc' = [wpc EXCEPT ![w] = "exited"]
    /\ wg' = wg - 1
    /\ UNCHANGED <<movies, paramVars, dispVars, imdbChan, closed, wid, wurl,
                   histVars>>

\* if err != nil { continue }
AfterFetchAlwaysUpdate(err) == "update"

AfterFetch(err) == IF err # NilErr THEN "range" ELSE "update"

\* posterURL, err := fetchPoster(imdbID)
WorkerFetch(w) ==
    /\ wpc[w] = "fetch"
    /\ \E r \in FetchResults :
         /\ fetchResult' = [fetchResult EXCEPT ![wid[w]] = r]
         /\ fetchCount' = [fetchCount EXCEPT ![wid[w]] = @ + 1]
         /\ wpc' = [wpc EXCEPT ![w] = AfterFetch(r.err)]
         /\ wurl' = [wurl EXCEPT ![w] = IF AfterFetch(r.err) = "update"
                                        THEN r.posterURL ELSE EMPTY]
         /\ wid' = [wid EXCEPT ![w] = IF AfterFetch(r.err) = "update"
                                      THEN @ ELSE 0]
    /\ UNCHANGED <<movies, paramVars, dispVars, imdbChan, closed, wg,
                   recvCount, updCount, updErr, updRows>>

\* the number of rows the UPDATE of a call with result err has changed
RowsAffected(tbl, imdbID, err) ==
    IF err = NilErr /\ tbl[imdbID].present THEN 1 ELSE 0

\* updatePosterInDB(db, imdbID, posterURL): the table after a call with
\* result err (Prepare or Exec failed: nothing is written)
\* updatePosterInDB returning after Prepare, without stmt.Exec
updatePosterInDBNoExec(tbl, imdbID, posterURL, err) == tbl

\* an update that is applied even when the call returns an error
updatePosterInDBWritesOnError(tbl, imdbID, posterURL, err) ==
    ExecUpdate(tbl, imdbID, posterURL)

updatePosterInDB(tbl, imdbID, posterURL, err) ==
    IF err = NilErr THEN ExecUpdate(tbl, imdbID, posterURL) ELSE tbl

\* the update step followed by a return out of the goroutine
WorkerUpdateThenReturn(w) ==
    /\ wpc[w] = "update"
    /\ \E err \in {NilErr, "error"} :
         /\ movies' = updatePosterInDB(movies, wid[w], wurl[w], err)
         /\ updErr' = [updErr EXCEPT ![wid[w]] = err]
         /\ updRows' = [updRows EXCEPT ![wid[w]] =
                           RowsAffected(movies, wid[w], err)]
    /\ updCount' = [updCount EXCEPT ![wid[w]] = @ + 1]
    /\ wpc' = [wpc EXCEPT ![w] = "exited"]
    /\ wg' = wg - 1
    /\ wid' = [wid EXCEPT ![w] = 0]
    /\ wurl' = [wurl EXCEPT ![w] = EMPTY]
    /\ UNCHANGED <<paramVars, dispVars, imdbChan, closed, recvCount,
                   fetchResult, fetchCount>>

\* the update step with `return` in the branch of a failed update
WorkerUpdateStopOnError(w) ==
    /\ wpc[w] = "update"
    /\ \E err \in {NilErr, "error"} :
         /\ movies' = updatePosterInDB(movies, wid[w], wurl[w], err)
         /\ updErr' = [updErr EXCEPT ![wid[w]] = err]
         /\ updRows' = [updRows EXCEPT ![wid[w]] =
                           RowsAffected(movies, wid[w], err)]
         /\ wpc' = [wpc EXCEPT ![w] = IF err = NilErr THEN "range" ELSE "exited"]
         /\ wg' = IF err = NilErr THEN wg ELSE wg - 1
    /\ updCount' = [updCount EXCEPT ![wid[w]] = @ + 1]
    /\ wid' = [wid EXCEPT ![w] = 0]
    /\ wurl' = [wurl EXCEPT ![w] = EMPTY]
    /\ UNCHANGED <<paramVars, dispVars, imdbChan, closed, recvCount,
                   fetchResult, fetchCount>>

\* if err := updatePosterInDB(db, imdbID, posterURL); err != nil { }
WorkerUpdate(w) ==
    /\ wpc[w] = "update"
    /\ \E err \in {NilErr, "error"} :
         /\ movies' = updatePosterInDB(movies, wid[w], wurl[w], err)
         /\ updErr' = [updErr EXCEPT ![wid[w]] = err]
         /\ updRows' = [updRows EXCEPT ![wid[w]] =
                           RowsAffected(movies, wid[w], err)]
    /\ updCount' = [updCount EXCEPT ![wid[w]] = @ + 1]
    /\ wpc' = [wpc EXCEPT ![w] = "range"]
    /\ wid' = [wid EXCEPT ![w] = 0]
    /\ wurl' = [wurl EXCEPT ![w] = EMPTY]
    /\ UNCHANGED <<paramVars, dispVars, imdbChan, closed, wg, recvCount,
                   fetchResult, fetchCount>>

(* ---------------------------- specification --------------------------- *)

Next ==
    \/ QueryFails
    \/ QueryOK
    \/ RowsScan
    \/ RowsScanFails
    \/ RowsIterFails
    \/ RowsEnd
    \/ Spawn
    \/ SpawnEnd
    \/ Push
    \/ Close
    \/ Wait
    \/ \E w \in Workers : WorkerRecv(w)
    \/ \E w \in Workers : WorkerExit(w)
    \/ \E w \in Workers : WorkerFetch(w)
    \/ \E w \in Workers : WorkerUpdate(w)

Spec == Init /\ [][Next]_vars

TypeOK ==
    /\ pc \in {"query", "rows", "spawn", "push", "wait", "done"}
    /\ ret \in {"none", NilErr, "error"}
    /\ wg \in 0..(MaxWorkers + 1)

(* ---------------------------- properties ------------------------------ *)

\* the ids of the selection
Selected == {imdbIDs[k] : k \in DOMAIN imdbIDs}

\* workers between receiving an id and finishing its fetch/update step
InProgress == {w \in Workers : wpc[w] \in {"fetch", "update"}}

Max(a, b) == IF a > b THEN a ELSE b

\* the fetch of id ended with an error (not found or transport)
FetchFailed(id) == fetchResult[id].err \notin {"none", NilErr}

\* the fetch of id returned a URL
Resolved(id) == fetchResult[id].err = NilErr

\* C1: with workerCount >= 1, no id is ever received or fetched twice, and
\* when the run returns nil every selected id has been received once and
\* fetched once and no other id has been fetched (M fetches in all).
C1_EachIdFetchedExactlyOnce ==
    workerCount >= 1 =>
        /\ \A id \in Ids : recvCount[id] <= 1 /\ fetchCount[id] <= 1
        /\ ret = NilErr =>
             \A id \in Ids :
                /\ recvCount[id] = (IF id \in Selected THEN 1 ELSE 0)
                /\ fetchCount[id] = (IF id \in Selected THEN 1 ELSE 0)

\* a run with fewer workers than ids has returned after fetching each id once
C1_Witness ==
    /\ ret = NilErr
    /\ workerCount = 2
    /\ Len(imdbIDs) = 3
    /\ \A id \in Selected : fetchCount[id] = 1 /\ recvCount[id] = 1

\* C2 (as claimed): for every workerCount, 0 and negative included, a nil
\* return implies that every selected id has been fetched exactly once.
C2_NilImpliesAllAttempted ==
    ret = NilErr => \A id \in Selected : fetchCount[id] = 1

\* C3: once the run has returned, every started worker has left its loop
\* (channel closed and drained) and holds no item, and no later step calls
\* fetchPoster or updatePosterInDB or changes the table.
C3_JoinBarrier ==
    /\ [](ret # "none" =>
            /\ \A w \in Workers : wpc[w] \in {"unstarted", "exited"}
            /\ InProgress = {}
            /\ (ret = NilErr =>
                  /\ closed
                  /\ \A w \in 1..workerCount : wpc[w] = "exited"
                  /\ (workerCount >= 1 => imdbChan = <<>>)))
    /\ [][ret # "none" =>
            /\ fetchCount' = fetchCount
            /\ updCount' = updCount
            /\ movies' = movies]_vars

\* both workers of a run have worked and exited before the run returned
C3_Witness ==
    /\ ret = NilErr
    /\ workerCount = 2
    /\ wpc[1] = "exited" /\ wpc[2] = "exited"
    /\ \E id \in Ids : updCount[id] = 1

\* C4: at most workerCount items (none when workerCount <= 0) are in
\* progress at any time, whatever the number of selected ids.
C4_AtMostWInProgress ==
    Cardinality(InProgress) <= Max(workerCount, 0)

\* two workers are both busy while a third selected id waits in the channel
C4_Witness ==
    /\ workerCount = 2
    /\ Len(imdbIDs) = 3
    /\ Cardinality(InProgress) = 2
    /\ Len(imdbChan) = 1

\* C5: when the selection was read without failure the run ends with nil,
\* whatever the per-item outcomes; an error is returned only for a failed
\* query or scan, before anything is dispatched.
C5_PerItemFailuresAbsorbed ==
    /\ (pc = "done" /\ failure = "none") => ret = NilErr
    /\ ret = "error" =>
          /\ failure \in {"query", "scan"}
          /\ \A id \in Ids : fetchCount[id] = 0 /\ updCount[id] = 0

\* a run of three ids, each of which failed at the fetch or at the update,
\* with both kinds of failure present, has returned nil
C5_Witness ==
    /\ ret = NilErr
    /\ failure = "none"
    /\ Len(imdbIDs) = 3
    /\ \A id \in Selected : FetchFailed(id) \/ updErr[id] = "error"
    /\ \E id \in Selected : FetchFailed(id)
    /\ \E id \in Selected : updErr[id] = "error"

\* C6: when the candidate query fails the run has returned that error; no
\* worker was started, nothing was fetched and nothing was written.
C6_QueryFailureAborts ==
    failure = "query" =>
        /\ ret = "error"
        /\ pc = "done"
        /\ wg = 0
        /\ \A w \in Workers : wpc[w] = "unstarted"
        /\ \A id \in Ids : fetchCount[id] = 0 /\ updCount[id] = 0
        /\ imdbChan = <<>>
        /\ movies = movies0

\* the query failed in a run that had candidates, workers and a limit
C6_Witness ==
    /\ failure = "query"
    /\ ret = "error"
    /\ Unset(movies) # {}
    /\ workerCount >= 1
    /\ limit >= 1

\* C7 (as claimed): if reading the candidate rows fails at any point (query,
\* scan, or row iteration ending with an error) the run fails with an error
\* and none of the ids read so far is fetched or written.
C7_NoPartialSelection ==
    failure # "none" =>
        /\ ret # NilErr
        /\ \A id \in Ids : fetchCount[id] = 0 /\ updCount[id] = 0
        /\ movies = movies0

\* C8: updatePosterInDB is called at most once per id, only for an id whose
\* fetch returned a URL without error, and a Poster differs from its value
\* at the start of the run only after such a call.
C8_WrittenAtMostOnceOnlyIfResolved ==
    \A id \in Ids :
        /\ updCount[id] <= 1
        /\ updCount[id] = 1 => Resolved(id) /\ fetchCount[id] = 1
        /\ movies[id] # movies0[id] => updCount[id] = 1 /\ Resolved(id)

\* an id was resolved and its Poster written once, while another id of the
\* same run failed its fetch and was not written
C8_Witness ==
    /\ \E id \in Selected :
          /\ updCount[id] = 1
          /\ updErr[id] = NilErr
          /\ movies[id].Poster = SomePoster(fetchResult[id].posterURL)
    /\ \E id \in Selected : FetchFailed(id) /\ updCount[id] = 0

\* C9: when the run returns, the Poster of every selected id whose fetch
\* ended not-found or with a transport error is still NULL.
C9_FailedFetchLeavesUnset ==
    ret = NilErr =>
        \A id \in Selected :
            FetchFailed(id) => movies[id].present /\ ~movies[id].Poster.Valid

\* a returned run with a not-found id, a status-error id and a written id
C9_Witness ==
    /\ ret = NilErr
    /\ \E id \in Selected : fetchResult[id].err = "poster not found"
    /\ \E id \in Selected : fetchResult[id].err = "status"
    /\ \E id \in Selected : Resolved(id) /\ movies[id].Poster.Valid

\* C10: when the run returns, every selected id whose fetch returned a URL
\* and whose updatePosterInDB call returned nil has exactly that URL as its
\* Poster.
C10_PersistedUrlIsFetchedUrl ==
    ret = NilErr =>
        \A id \in Selected :
            (Resolved(id) /\ updErr[id] = NilErr) =>
                /\ movies[id].present
                /\ movies[id].Poster = SomePoster(fetchResult[id].posterURL)

\* two ids resolved to different URLs were both persisted in one run
C10_Witness ==
    /\ ret = NilErr
    /\ \E a, b \in Selected :
          /\ a # b
          /\ Resolved(a) /\ updErr[a] = NilErr
          /\ Resolved(b) /\ updErr[b] = NilErr
          /\ fetchResult[a].posterURL = URL_A
          /\ fetchResult[b].posterURL = URL_B
          /\ movies[a].Poster.String = URL_A
          /\ movies[b].Poster.String = URL_B

\* C11: the sequence of ids sent into the channel holds no id twice.
C11_NoIdDispatchedTwice ==
    \A a, b \in DOMAIN sent : a # b => sent[a] # sent[b]

\* three ids have been sent and the channel closed
C11_Witness ==
    /\ Len(sent) = 3
    /\ closed
    /\ sent = imdbIDs

\* the row loop is over and the dispatcher works with imdbIDs as the selection
SelectionInUse ==
    \/ pc \in {"spawn", "push", "wait"}
    \/ pc = "done" /\ ret = NilErr

\* C12 (as claimed): the selection has at most limit ids, every one of them
\* had a NULL Poster at read time, all qualifying ids are in it when fewer
\* than limit qualify, and limit = 0 gives the empty selection.
C12_SelectorContract ==
    SelectionInUse =>
        /\ Len(imdbIDs) <= limit
        /\ Selected \subseteq Unset(movies0)
        /\ (Cardinality(Unset(movies0)) < limit => Selected = Unset(movies0))
        /\ (limit = 0 => imdbIDs = <<>>)

\* the query succeeded on a table without NULL Poster, or with limit = 0
EmptySelectionCase ==
    /\ pc # "query"
    /\ failure = "none"
    /\ (Unset(movies0) = {} \/ limit = 0)

\* C13: when no record qualifies or limit = 0, the selection is empty, the
\* channel has capacity zero and is closed without a send, no worker
\* receives, fetches or writes anything, the run can always take a further
\* step until it has returned, and it returns nil with every started worker
\* exited.
C13_EmptySelectionRun ==
    EmptySelectionCase =>
        /\ imdbIDs = <<>> /\ sent = <<>> /\ imdbChan = <<>>
        /\ (pc \in {"spawn", "push", "wait", "done"} => chanCap = 0)
        /\ \A id \in Ids :
              recvCount[id] = 0 /\ fetchCount[id] = 0 /\ updCount[id] = 0
        /\ \A w \in Workers : wpc[w] \in {"unstarted", "range", "exited"}
        /\ movies = movies0
        /\ (pc # "done" => ENABLED Next)
        /\ (pc = "done" =>
              /\ ret = NilErr
              /\ closed
              /\ \A w \in 1..workerCount : wpc[w] = "exited")

\* a run with limit 3 and two workers on a table of rows that all have a
\* Poster has returned nil
C13_Witness ==
    /\ pc = "done"
    /\ ret = NilErr
    /\ limit = 3
    /\ workerCount = 2
    /\ Unset(movies0) = {}
    /\ \E id \in Ids : movies0[id].present
    /\ wpc[1] = "exited" /\ wpc[2] = "exited"

(* ---------------------------- a second run ---------------------------- *)

\* every selected id of the finished run was resolved and persisted
FullySuccessful ==
    /\ ret = NilErr
    /\ \A id \in Selected : Resolved(id) /\ updErr[id] = NilErr

\* handleFetchPostersCLI is invoked again right after a fully successful
\* first run has returned: the same workerCount and limit, on the table as
\* the first run left it
StartSecondRun ==
    /\ pc = "done"
    /\ run = 1
    /\ FullySuccessful
    /\ run' = 2
    /\ firstSel' = Selected
    /\ firstFailure' = failure
    /\ movies0' = movies
    /\ pc' = "query"
    /\ rows' = <<>>
    /\ failure' = "none"
    /\ imdbIDs' = <<>>
    /\ imdbChan' = <<>>
    /\ chanCap' = 0
    /\ closed' = FALSE
    /\ wg' = 0
    /\ i' = 0
    /\ pushed' = 0
    /\ ret' = "none"
    /\ sent' = <<>>
    /\ wpc' = [w \in Workers |-> "unstarted"]
    /\ wid' = [w \in Workers |-> 0]
    /\ wurl' = [w \in Workers |-> EMPTY]
    /\ recvCount' = [id \in Ids |-> 0]
    /\ fetchResult' = [id \in Ids |-> NoFetch]
    /\ fetchCount' = [id \in Ids |-> 0]
    /\ updCount' = [id \in Ids |-> 0]
    /\ updErr' = [id \in Ids |-> "none"]
    /\ updRows' = [id \in Ids |-> 0]
    /\ UNCHANGED <<movies, workerCount, limit, otherPc, resp, res, callVars>>

NextTwoRuns ==
    \/ Next
    \/ StartSecondRun

SpecTwoRuns == Init /\ [][NextTwoRuns]_vars

\* C14 (as claimed): the second run after a fully successful first run
\* selects a strict subset of the ids the first run selected, or no id
\* (stated for two runs whose candidate rows were read without failure).
C14_SecondSelectionStrictSubset ==
    (run = 2 /\ firstFailure = "none" /\ SelectionInUse /\ failure = "none") =>
        \/ Selected = {}
        \/ Selected \subseteq firstSel /\ Selected # firstSel

\* C14 (amended): the second run after a fully successful first run selects
\* no id that the first run selected: every id of the first selection has a
\* Poster when the second run starts, and the second selection is drawn from
\* the ids that are still unset.
C14_SecondSelectionDisjoint ==
    run = 2 =>
        /\ \A id \in firstSel : movies0[id].Poster.Valid
        /\ Selected \cap firstSel = {}
        /\ Selected \subseteq Unset(movies0)

\* the first run selected and persisted two ids and the second run, with the
\* same limit, has selected the remaining one and returned
C14_Witness ==
    /\ run = 2
    /\ Cardinality(firstSel) = 2
    /\ firstFailure = "none"
    /\ failure = "none"
    /\ Selected # {}
    /\ pc = "done"
    /\ ret = NilErr

(* ---------------------------- fetchPoster alone ----------------------- *)

\* no run is under way; fetchPoster is called on one answer after another
InitFetch ==
    /\ Init
    /\ movies = [id \in Ids |-> NoRow]
    /\ workerCount = 0
    /\ limit = 0

\* posterURL, err := fetchPoster(imdbID), the service answering r
CallFetch ==
    /\ \E r \in Responses :
         /\ resp' = r
         /\ res' = fetchPoster(r)
    /\ UNCHANGED <<movies, movies0, workerCount, limit, dispVars, workerVars,
                   histVars, imdbChan, closed, wg, run, firstSel,
                   firstFailure, otherPc, callVars>>

NextFetch == CallFetch

SpecFetch == InitFetch /\ [][NextFetch]_vars

\* s is "n/a" in some letter case
IsNAToken(s) ==
    /\ Len(s) = 3
    /\ s[1] \in {"n", "N"}
    /\ s[2] = "/"
    /\ s[3] \in {"a", "A"}

\* C15: the result of fetchPoster on an answer: an error whenever the
\* transport failed or the status is not 200, whatever the body; else a
\* decode error when the body cannot be decoded; else not-found when the
\* Poster field is absent, empty or "n/a" in any letter case; else the
\* Poster field verbatim with a nil error.
C15_FetchPosterClassification ==
    res # NoFetch =>
        LET bad == ~resp.transportOK \/ resp.StatusCode # 200
            notFound == \/ ~resp.hasPoster
                        \/ resp.Poster = EMPTY
                        \/ IsNAToken(resp.Poster)
        IN /\ bad => res.err \in {"transport", "status"}
                     /\ res.posterURL = EMPTY
           /\ (~bad /\ ~resp.decodable) =>
                 res.err = "decode" /\ res.posterURL = EMPTY
           /\ (~bad /\ resp.decodable /\ notFound) =>
                 res.err = "poster not found" /\ res.posterURL = EMPTY
           /\ (~bad /\ resp.decodable /\ ~notFound) =>
                 res.err = NilErr /\ res.posterURL = resp.Poster

\* a 200 answer with Poster "N/a" has been classified as not found
C15_Witness ==
    /\ resp.transportOK /\ resp.StatusCode = 200 /\ resp.decodable
    /\ resp.hasPoster /\ resp.Poster = NA_MIXED
    /\ res.err = "poster not found"

\* worker w leaves its update step in this step
UpdateStepOf(w) == wpc[w] = "update" /\ wpc'[w] # "update"

\* C16: a worker whose updatePosterInDB call fails goes back to the receive
\* of its loop, with the table, the WaitGroup and the return value untouched;
\* the call is not repeated; the run still returns nil and, with at least
\* one worker, every selected id has been fetched once.
C16_UpdateFailureDiscarded ==
    /\ [][\A w \in Workers :
            UpdateStepOf(w) =>
               /\ wpc'[w] = "range"
               /\ wg' = wg
               /\ ret' = ret
               /\ updCount'[wid[w]] = updCount[wid[w]] + 1
               /\ (updErr'[wid[w]] = "error" => movies' = movies)]_vars
    /\ []((\E id \in Ids : updErr[id] = "error") =>
            /\ \A id \in Ids : updErr[id] = "error" => updCount[id] = 1
            /\ ret # "error"
            /\ (pc = "done" =>
                  /\ ret = NilErr
                  /\ \A id \in Selected : fetchCount[id] = 1))

\* the only worker of a run failed to persist the first id, went on to
\* fetch and persist the second, and the run returned nil
C16_Witness ==
    /\ ret = NilErr
    /\ workerCount = 1
    /\ Len(imdbIDs) = 2
    /\ updErr[imdbIDs[1]] = "error"
    /\ updCount[imdbIDs[1]] = 1
    /\ fetchCount[imdbIDs[2]] = 1
    /\ updErr[imdbIDs[2]] = NilErr

(* ---------------------------- a concurrent delete --------------------- *)

\* DELETE FROM movies WHERE IMDb_id = ?
deleteMovie(tbl, imdbID) == [tbl EXCEPT ![imdbID] = NoRow]

\* a worker holds the fetched URL of id and is about to call updatePosterInDB
PersistAhead(id) == \E w \in Workers : wpc[w] = "update" /\ wid[w] = id

\* another command, handleDeleteMovieCLI, deletes one movie between its
\* selection by the run and the run's persist for it.  The run does not
\* read the row between the two, so the delete is placed right before the
\* persist; any other delete leaves the steps of the run as they are.
OtherDelete ==
    /\ otherPc = "idle"
    /\ pc \notin {"query", "done"}
    /\ \E id \in Ids :
         /\ PersistAhead(id)
         /\ movies' = deleteMovie(movies, id)
    /\ otherPc' = "done"
    /\ UNCHANGED <<movies0, workerCount, limit, dispVars, workerVars, histVars,
                   imdbChan, closed, wg, run, firstSel, firstFailure, resp,
                   res, callVars>>

NextWithDelete ==
    \/ Next
    \/ OtherDelete

SpecWithDelete == Init /\ [][NextWithDelete]_vars

\* C17: a persist for an identifier that has no row (here: deleted by another
\* command after the run selected it) changes no row and creates none, the
\* worker goes on with its loop, and the run does not report an error.
C17_PersistOfAbsentRowIsNoOp ==
    /\ [][\A w \in Workers :
            (UpdateStepOf(w) /\ ~movies[wid[w]].present) =>
               /\ movies' = movies
               /\ ~movies'[wid[w]].present
               /\ updRows'[wid[w]] = 0
               /\ wpc'[w] = "range"
               /\ ret' = ret]_vars
    /\ []((\E id \in Ids : updCount[id] >= 1 /\ ~movies[id].present) =>
            /\ ret # "error"
            /\ (pc = "done" => ret = NilErr))

\* a selected row was deleted by the other command, the run then executed
\* the UPDATE for it without a database error, no row was affected, and the
\* run returned nil
C17_Witness ==
    /\ ret = NilErr
    /\ otherPc = "done"
    /\ \E id \in Selected :
         /\ movies0[id].present
         /\ ~movies[id].present
         /\ updCount[id] = 1
         /\ updErr[id] = NilErr
         /\ updRows[id] = 0

(* ---------------------------- frame and outcome of a run -------------- *)

\* C18: whatever the run has done so far, every identifier has a row exactly
\* when it had one at the start, with the title, year and rating it had, and
\* a row whose identifier the run did not select is as it was at the start.
C18_OnlyPosterOfSelectedChanges ==
    \A id \in Ids :
        /\ movies[id].present = movies0[id].present
        /\ movies[id].Title = movies0[id].Title
        /\ movies[id].Year = movies0[id].Year
        /\ movies[id].Rating = movies0[id].Rating
        /\ (id \notin Selected => movies[id] = movies0[id])

\* the run has returned after writing the Poster of a selected row, beside
\* an unset row the LIMIT left out and a row that had its Poster already
C18_Witness ==
    /\ pc = "done"
    /\ \E id \in Selected : movies[id].Poster # movies0[id].Poster
    /\ \E id \in Ids \ Selected :
         movies[id].present /\ movies[id].Poster = NullPoster
    /\ \E id \in Ids \ Selected :
         movies[id].present /\ movies[id].Poster = SomePoster(OLD_URL)

\* C19: when the run has returned and no updatePosterInDB call has failed,
\* the ids written are exactly the selected ids whose fetchPoster call
\* returned a URL, each written once, one row each, with the URL returned
\* for that id.
C19_WritesAreTheResolvedIds ==
    (pc = "done" /\ ret = NilErr /\ \A id \in Ids : updErr[id] # "error") =>
        /\ {id \in Ids : updCount[id] >= 1} = {id \in Selected : Resolved(id)}
        /\ \A id \in Selected :
              Resolved(id) =>
                 /\ updCount[id] = 1
                 /\ updRows[id] = 1
                 /\ movies[id].Poster = SomePoster(fetchResult[id].posterURL)

\* two ids selected, one answered with a status other than 200 and one with
\* a URL: one write, and the run returned nil
C19_Witness ==
    /\ pc = "done"
    /\ ret = NilErr
    /\ Cardinality(Selected) = 2
    /\ \A id \in Ids : updErr[id] # "error"
    /\ \E a, b \in Selected :
         /\ fetchResult[a].err = "status"
         /\ Resolved(b)
         /\ updCount[a] = 0
         /\ updCount[b] = 1

\* C20: a Poster that is set is never the empty string and never "n/a" in
\* any case of its letters, and what the run has written is the URL that
\* fetchPoster returned.
C20_PosterNeverEmptyOrNA ==
    \A id \in Ids :
        /\ movies[id].Poster.Valid =>
              /\ movies[id].Poster.String # EMPTY
              /\ ~IsNAToken(movies[id].Poster.String)
        /\ (updCount[id] >= 1 /\ updErr[id] = NilErr) =>
              /\ movies[id].Poster.Valid
              /\ movies[id].Poster.String \in {URL_A, URL_B}

\* one selected id was answered with "N/A" and stays unset, another was
\* answered with a URL and has it
C20_Witness ==
    \E a, b \in Selected :
        /\ fetchResult[a].err = "poster not found"
        /\ ~movies[a].Poster.Valid
        /\ updCount[b] = 1
        /\ movies[b].Poster = SomePoster(URL_B)

(* ---------------------------- NullString and JSON --------------------- *)

\* Go strings and JSON texts are sequences of bytes, a byte is its number.
\* The bytes of the strings given to MarshalJSON: a, ", \, <, line feed,
\* 0xFF (valid nowhere in UTF-8), and 0xEF 0xBF 0xBD (lead and continuation
\* bytes: in this order they are U+FFFD)
JsonBytes == {97, 34, 92, 60, 10, 255, 239, 191, 189}

RECURSIVE ByteStrings(_)
ByteStrings(n) ==
    IF n = 0 THEN {<<>>}
    ELSE LET shorter == ByteStrings(n - 1)
         IN shorter \cup {Append(t, b) : t \in {u \in shorter : Len(u) = n - 1},
                                          b \in JsonBytes}

\* the values of a NullString
NullStrings == [Valid : BOOLEAN, String : ByteStrings(MaxStrLen)]

RuneError == 65533

IsCont(b) == b >= 128 /\ b <= 191

\* utf8.DecodeRune at position k of s, for sequences of one to three bytes
DecodeRune(s, k) ==
    LET b == s[k] IN
    IF b < 128 THEN [rune |-> b, size |-> 1]
    ELSE IF b >= 194 /\ b <= 223 /\ k + 1 <= Len(s) /\ IsCont(s[k + 1])
         THEN [rune |-> (b - 192) * 64 + (s[k + 1] - 128), size |-> 2]
    ELSE IF /\ b >= 224 /\ b <= 239 /\ k + 2 <= Len(s)
            /\ IsCont(s[k + 1]) /\ IsCont(s[k + 2])
            /\ (b = 224 => s[k + 1] >= 160)
            /\ (b = 237 => s[k + 1] <= 159)
         THEN [rune |-> (b - 224) * 4096 + (s[k + 1] - 128) * 64
                          + (s[k + 2] - 128),
               size |-> 3]
    ELSE [rune |-> RuneError, size |-> 1]

\* utf8.EncodeRune, for runes below U+10000
EncodeRune(r) ==
    IF r < 128 THEN <<r>>
    ELSE IF r < 2048 THEN <<192 + (r \div 64), 128 + (r % 64)>>
    ELSE <<224 + (r \div 4096), 128 + ((r \div 64) % 64), 128 + (r % 64)>>

RECURSIVE ValidFrom(_, _)
ValidFrom(s, k) ==
    IF k > Len(s) THEN TRUE
    ELSE LET d == DecodeRune(s, k)
         IN IF d.rune = RuneError /\ d.size = 1 THEN FALSE
            ELSE ValidFrom(s, k + d.size)

\* utf8.ValidString
ValidString(s) == ValidFrom(s, 1)

\* the digit of "0123456789abcdef" for n
Hex(n) == IF n < 10 THEN 48 + n ELSE 87 + n

\* the value of a hexadecimal digit, -1 for another byte
HexVal(c) ==
    IF c >= 48 /\ c <= 57 THEN c - 48
    ELSE IF c >= 97 /\ c <= 102 THEN c - 87
    ELSE IF c >= 65 /\ c <= 70 THEN c - 55
    ELSE 0 - 1

\* htmlSafeSet: the ASCII bytes json.Marshal copies as they are
HtmlSafe(b) == b >= 32 /\ b <= 126 /\ b \notin {34, 92, 60, 62, 38}

\* the escape json.Marshal writes for an ASCII byte that is not safe
EscapeByte(b) ==
    IF b \in {34, 92} THEN <<92, b>>
    ELSE IF b = 10 THEN <<92, 110>>
    ELSE IF b = 13 THEN <<92, 114>>
    ELSE IF b = 9 THEN <<92, 116>>
    ELSE IF b = 8 THEN <<92, 98>>
    ELSE IF b = 12 THEN <<92, 102>>
    ELSE <<92, 117, 48, 48, Hex(b \div 16), Hex(b % 16)>>

\* encoding/json appendString from position k, with escapeHTML
RECURSIVE AppendString(_, _)
AppendString(s, k) ==
    IF k > Len(s) THEN <<>>
    ELSE IF s[k] < 128
         THEN (IF HtmlSafe(s[k]) THEN <<s[k]>> ELSE EscapeByte(s[k]))
              \o AppendString(s, k + 1)
    ELSE LET d == DecodeRune(s, k) IN
         IF d.rune = RuneError /\ d.size = 1
         THEN <<92, 117, 102, 102, 102, 100>> \o AppendString(s, k + 1)
         ELSE IF d.rune \in {8232, 8233}
         THEN <<92, 117, 50, 48, 50, Hex(d.rune % 16)>>
              \o AppendString(s, k + d.size)
         ELSE SubSeq(s, k, k + d.size - 1) \o AppendString(s, k + d.size)

\* json.Marshal(nil)
JsonNull == <<110, 117, 108, 108>>

\* json.Marshal of a string
MarshalString(s) == <<34>> \o AppendString(s, 1) \o <<34>>

\* Show the string directly as value if there is one, otherwise show `null`
MarshalJSON(n) == IF n.Valid THEN MarshalString(n.String) ELSE JsonNull

NoString == [ok |-> FALSE, s |-> <<>>]

\* the four hexadecimal digits after \u at position k: the rune, or -1
GetU4(b, k) ==
    IF k + 3 > Len(b) THEN 0 - 1
    ELSE IF \E j \in 0..3 : HexVal(b[k + j]) < 0 THEN 0 - 1
    ELSE ((HexVal(b[k]) * 16 + HexVal(b[k + 1])) * 16 + HexVal(b[k + 2])) * 16
         + HexVal(b[k + 3])

\* the byte a one-letter escape stands for, -1 for another letter
Unescaped(c) ==
    IF c \in {34, 92, 47} THEN c
    ELSE IF c = 98 THEN 8
    ELSE IF c = 102 THEN 12
    ELSE IF c = 110 THEN 10
    ELSE IF c = 114 THEN 13
    ELSE IF c = 116 THEN 9
    ELSE 0 - 1

\* one unit of the string body at position k: its bytes and the next position
UnquoteStep(b, k) ==
    LET c == b[k] IN
    IF c = 92
    THEN IF k + 1 > Len(b) THEN [ok |-> FALSE, s |-> <<>>, next |-> k]
         ELSE IF b[k + 1] = 117
         THEN LET r == GetU4(b, k + 2) IN
              IF r < 0 THEN [ok |-> FALSE, s |-> <<>>, next |-> k]
              ELSE IF r >= 55296 /\ r <= 57343
                   THEN [ok |-> TRUE, s |-> EncodeRune(RuneError), next |-> k + 6]
              ELSE [ok |-> TRUE, s |-> EncodeRune(r), next |-> k + 6]
         ELSE IF Unescaped(b[k + 1]) < 0
              THEN [ok |-> FALSE, s |-> <<>>, next |-> k]
         ELSE [ok |-> TRUE, s |-> <<Unescaped(b[k + 1])>>, next |-> k + 2]
    ELSE IF c = 34 \/ c < 32 THEN [ok |-> FALSE, s |-> <<>>, next |-> k]
    ELSE IF c < 128 THEN [ok |-> TRUE, s |-> <<c>>, next |-> k + 1]
    ELSE LET d == DecodeRune(b, k)
         IN [ok |-> TRUE, s |-> EncodeRune(d.rune), next |-> k + d.size]

\* encoding/json unquoteBytes on the body of a string literal
RECURSIVE UnquoteBytes(_, _)
UnquoteBytes(b, k) ==
    IF k > Len(b) THEN [ok |-> TRUE, s |-> <<>>]
    ELSE LET u == UnquoteStep(b, k) IN
         IF ~u.ok THEN NoString
         ELSE LET rest == UnquoteBytes(b, u.next)
              IN IF rest.ok THEN [ok |-> TRUE, s |-> u.s \o rest.s]
                 ELSE NoString

\* json.Unmarshal(data, &s) with var s *string: s.nil for null, an error for
\* a text that is neither null nor a string literal
UnmarshalStringPtr(d) ==
    IF d = JsonNull THEN [err |-> NilErr, nil |-> TRUE, s |-> <<>>]
    ELSE IF Len(d) >= 2 /\ d[1] = 34 /\ d[Len(d)] = 34
            /\ UnquoteBytes(SubSeq(d, 2, Len(d) - 1), 1).ok
         THEN [err |-> NilErr, nil |-> FALSE,
               s |-> UnquoteBytes(SubSeq(d, 2, Len(d) - 1), 1).s]
    ELSE [err |-> "error", nil |-> TRUE, s |-> <<>>]

\* a decoder that takes the empty string for the absence of a value
UnmarshalJSONEmptyAsNull(target, d) ==
    LET p == UnmarshalStringPtr(d) IN
    IF p.err # NilErr
    THEN [Valid |-> target.Valid, String |-> target.String, err |-> p.err]
    ELSE IF ~p.nil /\ p.s # <<>>
         THEN [Valid |-> TRUE, String |-> p.s, err |-> NilErr]
    ELSE [Valid |-> FALSE, String |-> target.String, err |-> NilErr]

\* Unwrap a value into the original sql.NullString type.
UnmarshalJSON(target, d) ==
    LET p == UnmarshalStringPtr(d) IN
    IF p.err # NilErr
    THEN [Valid |-> target.Valid, String |-> target.String, err |-> p.err]
    ELSE IF ~p.nil
         THEN [Valid |-> TRUE, String |-> p.s, err |-> NilErr]
    ELSE [Valid |-> FALSE, String |-> target.String, err |-> NilErr]

\* var fresh NullString
FreshNullString == [Valid |-> FALSE, String |-> <<>>]

\* one table is enough for the calls that read no table
InitJSON ==
    /\ movies = [id \in Ids |-> NoRow]
    /\ movies0 = movies
    /\ InitRest
    /\ workerCount = 0
    /\ limit = 0

\* data, _ := n.MarshalJSON()
CallMarshal ==
    /\ data = <<>>
    /\ \E n \in NullStrings :
         /\ ns' = n
         /\ data' = MarshalJSON(n)
    /\ out' = [Valid |-> FALSE, String |-> <<>>, err |-> "none"]
    /\ UNCHANGED <<movies, movies0, workerCount, limit, dispVars, workerVars,
                   histVars, imdbChan, closed, wg, run, firstSel,
                   firstFailure, otherPc, resp, res, req, reply>>

\* var fresh NullString; err := fresh.UnmarshalJSON(data)
CallUnmarshal ==
    /\ data # <<>>
    /\ out.err = "none"
    /\ out' = UnmarshalJSON(FreshNullString, data)
    /\ UNCHANGED <<movies, movies0, workerCount, limit, dispVars, workerVars,
                   histVars, imdbChan, closed, wg, run, firstSel,
                   firstFailure, otherPc, resp, res, ns, data, req, reply>>

NextJSON ==
    \/ CallMarshal
    \/ CallUnmarshal

SpecJSON == InitJSON /\ [][NextJSON]_vars

\* C21 as stated: after MarshalJSON and UnmarshalJSON into a fresh value, the
\* Valid flag is that of ns and, when Valid, the String is that of ns; an
\* invalid ns is encoded as null, a valid empty string as "" and it stays
\* Valid.
C21_RoundTripEveryNullString ==
    /\ (data # <<>> /\ ~ns.Valid) => data = JsonNull
    /\ (data # <<>> /\ ns.Valid /\ ns.String = <<>>) => data = <<34, 34>>
    /\ out.err # "none" =>
          /\ out.err = NilErr
          /\ out.Valid = ns.Valid
          /\ (ns.Valid => out.String = ns.String)

\* C21: the same, the String being that of ns whenever the String of ns is
\* valid UTF-8.
C21_RoundTripValidUTF8 ==
    /\ (data # <<>> /\ ~ns.Valid) => data = JsonNull
    /\ (data # <<>> /\ ns.Valid /\ ns.String = <<>>) => data = <<34, 34>>
    /\ out.err # "none" =>
          /\ out.err = NilErr
          /\ out.Valid = ns.Valid
          /\ ((ns.Valid /\ ValidString(ns.String)) => out.String = ns.String)

\* a string json.Marshal writes with three escapes went through both
\* methods and came back as it was
C21_Witness ==
    /\ out.err = NilErr
    /\ ns.Valid
    /\ out.Valid
    /\ ns.String = <<34, 60, 10>>
    /\ data = <<34, 92, 34, 92, 117, 48, 48, 51, 99, 92, 110, 34>>
    /\ out.String = ns.String

(* ---------------------------- GET /movies ----------------------------- *)

\* rows with the years and ratings a listing can tell apart
ListRows ==
    {NoRow} \cup {[NewRow EXCEPT !.Year = y, !.Rating = r] :
                     y \in {1990, 2000}, r \in {5, 7}}

ListTables == [Ids -> ListRows]

\* the values of the query parameters sort, order and year ("" when absent)
SortParams == {"", "year", "rating", "title"}

OrderParams == {"", "asc", "desc"}

YearParams == {<<>>, <<"1", "9", "9", "0">>, <<"0">>, <<"a">>}

DigitVal(c) ==
    CASE c = "0" -> 0 [] c = "1" -> 1 [] c = "2" -> 2 [] c = "3" -> 3
      [] c = "4" -> 4 [] c = "5" -> 5 [] c = "6" -> 6 [] c = "7" -> 7
      [] c = "8" -> 8 [] c = "9" -> 9 [] OTHER -> 0 - 1

RECURSIVE AtoiFrom(_, _, _)
AtoiFrom(s, k, acc) ==
    IF k > Len(s) THEN acc
    ELSE AtoiFrom(s, k + 1, acc * 10 + DigitVal(s[k]))

\* filterYear, _ = strconv.Atoi(year): 0 when year is not a number
Atoi(s) ==
    IF s = <<>> \/ \E k \in DOMAIN s : DigitVal(s[k]) < 0 THEN 0
    ELSE AtoiFrom(s, 1, 0)

\* the orders in which a SELECT can return the rows of S
RowOrders(S) ==
    {q \in [1..Cardinality(S) -> S] : \A a, b \in DOMAIN q : a # b => q[a] # q[b]}

\* the column named after ORDER BY
SortKey(tbl, id, sortBy) ==
    IF sortBy = "rating" THEN tbl[id].Rating ELSE tbl[id].Year

\* q is in the order ORDER BY <column> ASC | DESC asks for
InOrder(tbl, q, sortBy, order) ==
    \A a, b \in DOMAIN q :
        a < b => IF order = "desc"
                 THEN SortKey(tbl, q[a], sortBy) >= SortKey(tbl, q[b], sortBy)
                 ELSE SortKey(tbl, q[a], sortBy) <= SortKey(tbl, q[b], sortBy)

\* WHERE Year = ?, added when filterYear != 0
ListMatch(tbl, filterYear) ==
    {id \in Ids : tbl[id].present /\ (filterYear # 0 => tbl[id].Year = filterYear)}

\* listMovies: the results the query built from the arguments can have.  No
\* ORDER BY is written when sortBy is ""; for a sortBy other than "year" and
\* "rating" the text ends in ASC or DESC without ORDER BY and db.Query fails.
listMovies(tbl, sortBy, order, filterYear) ==
    IF sortBy \notin {"", "year", "rating"}
    THEN {[err |-> "error", movies |-> <<>>]}
    ELSE {[err |-> NilErr, movies |-> q] :
             q \in {o \in RowOrders(ListMatch(tbl, filterYear)) :
                       sortBy = "" \/ InOrder(tbl, o, sortBy, order)}}

InitList ==
    /\ movies \in ListTables
    /\ movies0 = movies
    /\ InitRest
    /\ workerCount = 0
    /\ limit = 0

\* handleListMovies: GET /movies?sort=&order=&year=
CallList ==
    /\ req = NoCall
    /\ \E sortBy \in SortParams, order \in OrderParams, year \in YearParams :
         /\ req' = [op |-> "list", sort |-> sortBy, order |-> order,
                    year |-> year]
         /\ \E r \in listMovies(movies, sortBy, order,
                                IF year # <<>> THEN Atoi(year) ELSE 0) :
              reply' = [op |-> "list", err |-> r.err, movies |-> r.movies,
                        status |-> IF r.err = NilErr THEN 200 ELSE 500]
    /\ UNCHANGED <<movies, movies0, workerCount, limit, dispVars, workerVars,
                   histVars, imdbChan, closed, wg, run, firstSel,
                   firstFailure, otherPc, resp, res, ns, data, out>>

NextList == CallList

SpecList == InitList /\ [][NextList]_vars

\* C22: an answered GET /movies with sort absent, "year" or "rating" lists the
\* movies by rating when sort is "rating" and by year otherwise, descending
\* when order is "desc" and ascending otherwise, and with a year given it
\* lists exactly the movies of that year.
C22_ListingOrderedAndFiltered ==
    (reply.op = "list" /\ req.sort \in {"", "year", "rating"}) =>
        /\ reply.err = NilErr
        /\ InOrder(movies, reply.movies,
                   IF req.sort = "rating" THEN "rating" ELSE "year", req.order)
        /\ {reply.movies[k] : k \in DOMAIN reply.movies}
             = {id \in Ids : /\ movies[id].present
                             /\ (req.year = <<"1", "9", "9", "0">> =>
                                   movies[id].Year = 1990)}

(* ---------------------------- DELETE /movies/{imdbID} ----------------- *)

\* deleteMovie without the test rowsAffected == 0
deleteMovieErrNoRowsCheck(tbl, imdbID, dbErr) ==
    IF dbErr THEN "error" ELSE NilErr

\* the error deleteMovie returns; dbErr: Prepare or Exec failed
deleteMovieErr(tbl, imdbID, dbErr) ==
    IF dbErr THEN "error"
    ELSE IF ~tbl[imdbID].present THEN "Movie not found"
    ELSE NilErr

\* handleDeleteMovie: http.Error(..., StatusNotFound) or StatusNoContent
DeleteStatus(err) == IF err # NilErr THEN 404 ELSE 204

InitDelete ==
    /\ Init
    /\ workerCount = 0
    /\ limit = 0

\* handleDeleteMovie / handleDeleteMovieCLI for one imdbID
CallDelete ==
    /\ req = NoCall
    /\ \E id \in Ids, dbErr \in BOOLEAN :
         LET err == deleteMovieErr(movies, id, dbErr) IN
         /\ req' = [op |-> "delete", imdbID |-> id]
         /\ movies' = IF dbErr THEN movies ELSE deleteMovie(movies, id)
         /\ reply' = [op |-> "delete", err |-> err, status |-> DeleteStatus(err)]
    /\ UNCHANGED <<movies0, workerCount, limit, dispVars, workerVars,
                   histVars, imdbChan, closed, wg, run, firstSel,
                   firstFailure, otherPc, resp, res, ns, data, out>>

NextDelete == CallDelete

SpecDelete == InitDelete /\ [][NextDelete]_vars

C24_ProducerNeverBlocks ==
    /\ pc \in {"spawn", "push", "wait"} => chanCap = Len(imdbIDs)
    /\ pc = "push" =>
          /\ Len(imdbChan) <= pushed
          /\ (pushed < Len(imdbIDs) =>
                 /\ Len(imdbChan) < chanCap
                 /\ ENABLED Push)
          /\ (pushed = Len(imdbIDs) => ENABLED Close)

\* the only worker is inside fetchPoster for the first of three ids, the
\* other two are in the buffer, and the channel has been closed
C24_Witness ==
    /\ closed
    /\ workerCount = 1
    /\ wpc[1] = "fetch"
    /\ Len(imdbIDs) = 3
    /\ Len(imdbChan) = 2
    /\ \A id \in Ids : fetchCount[id] = 0

\* the number of times id occurs in the sequence q
Occurrences(q, id) == Cardinality({k \in DOMAIN q : q[k] = id})

\* C25: the channel is closed by one step only, taken when every selected id
\* has been sent; once closed it stays closed and nothing more is sent; the
\* dispatcher waits and returns nil only with the channel closed; every id
\* sent is in the buffer or has been received, as often as it was sent; and
\* a worker has left its loop only with the channel closed and empty.
C25_ClosedOnceAfterAllPushed ==
    /\ [][(closed' # closed) =>
             /\ ~closed
             /\ pushed = Len(imdbIDs)
             /\ sent = imdbIDs]_vars
    /\ [][closed => (closed' /\ sent' = sent /\ pushed' = pushed)]_vars
    /\ []((pc = "wait" \/ (pc = "done" /\ ret = NilErr)) => closed)
    /\ [](\A id \in Ids :
            Occurrences(sent, id) = Occurrences(imdbChan, id) + recvCount[id])
    /\ [](\A w \in Workers :
            wpc[w] = "exited" =>
               /\ closed
               /\ imdbChan = <<>>
               /\ \A id \in Selected : recvCount[id] = 1)

\* three ids were sent, then the channel was closed, a worker had not yet
\* received the last of them, and every worker has left its loop since
C25_Witness ==
    /\ closed
    /\ Len(sent) = 3
    /\ pc = "done"
    /\ workerCount = 2
    /\ \A w \in 1..2 : wpc[w] = "exited"
    /\ \A id \in Selected : recvCount[id] = 1

(* ---------------------------- termination ----------------------------- *)

\* the steps of the goroutine that called fetchPostersConcurrently
Dispatcher ==
    \/ QueryFails
    \/ QueryOK
    \/ RowsScan
    \/ RowsScanFails
    \/ RowsIterFails
    \/ RowsEnd
    \/ Spawn
    \/ SpawnEnd
    \/ Push
    \/ Close
    \/ Wait

\* the steps of the goroutine started as worker w
Worker(w) ==
    \/ WorkerRecv(w)
    \/ WorkerExit(w)
    \/ WorkerFetch(w)
    \/ WorkerUpdate(w)

\* every goroutine that can take a step is scheduled in the end, and the
\* calls of fetchPoster and updatePosterInDB return
Fairness ==
    /\ WF_vars(Dispatcher)
    /\ \A w \in Workers : WF_vars(Worker(w))

\* whether the run returns depends on the table and the limit through the
\* number of ids selected only: the tables whose first k ids have a row
\* without Poster and whose other ids have no row, k = 0..NumIds, with the
\* largest limit
InitFair ==
    /\ Init
    /\ limit = MaxLimit
    /\ \E k \in 0..NumIds :
         movies = [id \in Ids |-> IF id <= k THEN NewRow ELSE NoRow]

SpecFair == InitFair /\ [][Next]_vars /\ Fairness

\* the dispatcher is in wg.Wait, the counter is not zero, and every worker
\* that was started is blocked in the receive on an open, empty channel
WaitForever ==
    /\ pc = "wait"
    /\ wg > 0
    /\ ~closed
    /\ imdbChan = <<>>
    /\ \A w \in Workers : wpc[w] \in {"unstarted", "range", "exited"}

\* C26: every fairly scheduled run returns; until it has returned some
\* goroutine can take a step; and the dispatcher is never in wg.Wait with
\* the workers blocked in the receive.
C26_RunTerminates ==
    /\ <>(pc = "done")
    /\ [](pc # "done" => ENABLED Next)
    /\ []~WaitForever

\* a run with the largest number of workers and every id selected has
\* returned nil, the counter at zero and the workers out of their loops
C26_Witness ==
    /\ pc = "done"
    /\ ret = NilErr
    /\ wg = 0
    /\ workerCount = MaxWorkers
    /\ Len(imdbIDs) = NumIds
    /\ \A w \in 1..MaxWorkers : wpc[w] = "exited"

(* ---------------------------- a concurrent add ------------------------ *)

\* INSERT INTO movies (IMDb_id, Title, Year, Rating) VALUES (?, ?, ?, ?)
addMovie(tbl, imdbID) == [tbl EXCEPT ![imdbID] = NewRow]

\* another command, handleAddMovieCLI, adds a movie once the run has read
\* its selection.  The run reads the table no more and writes the rows of
\* selected ids only, so the add is placed right after the read loop: every
\* later step of the run then has the new row before it.
OtherAdd ==
    /\ otherPc = "idle"
    /\ pc = "spawn"
    /\ i = 0
    /\ \E id \in Ids :
         /\ ~movies[id].present
         /\ movies' = addMovie(movies, id)
    /\ otherPc' = "done"
    /\ UNCHANGED <<movies0, workerCount, limit, dispVars, workerVars, histVars,
                   imdbChan, closed, wg, run, firstSel, firstFailure, resp,
                   res, callVars>>

NextWithAdd ==
    \/ Next
    \/ OtherAdd

SpecWithAdd == Init /\ [][NextWithAdd]_vars

\* the ids whose row was added after the run started
AddedLater == {id \in Ids : ~movies0[id].present /\ movies[id].present}

\* C27: nothing is sent, received or fetched, and no worker is started, while
\* the dispatcher is still at the query or in its read loop; after the read
\* loop imdbIDs does not change; and a row added after the selection read
\* is not selected, not received, not fetched, not written: its Poster stays
\* NULL through the run.
C27_SelectionUpFront ==
    /\ [](pc \in {"query", "rows"} =>
            /\ sent = <<>>
            /\ imdbChan = <<>>
            /\ \A w \in Workers : wpc[w] = "unstarted"
            /\ \A id \in Ids : recvCount[id] = 0 /\ fetchCount[id] = 0)
    /\ [][pc \notin {"query", "rows"} => imdbIDs' = imdbIDs]_vars
    /\ [](\A id \in AddedLater :
            /\ id \notin Selected
            /\ recvCount[id] = 0
            /\ fetchCount[id] = 0
            /\ updCount[id] = 0
            /\ movies[id].Poster = NullPoster)

\* a movie was added after the selection read; the run fetched and wrote
\* the Poster of a selected id and returned, the new row still without one
C27_Witness ==
    /\ pc = "done"
    /\ ret = NilErr
    /\ otherPc = "done"
    /\ AddedLater # {}
    /\ \E id \in Selected : updCount[id] = 1 /\ movies[id].Poster.Valid
    /\ \A id \in AddedLater : id \in Unset(movies)

(* ---------------------------- the workers of a run -------------------- *)

\* the workers whose goroutine has been started
Started == {w \in Workers : wpc[w] # "unstarted"}

\* C28: in a run with workerCount >= 1 the workers started are among
\* 1..workerCount at any time and are exactly 1..workerCount from the end of
\* the spawn loop on, so before anything is sent; a worker has left its loop
\* only with the channel closed and empty; and when the run has returned nil
\* every one of them has.
C28_WorkerCountWorkers ==
    workerCount >= 1 =>
        /\ Started \subseteq 1..workerCount
        /\ (pc \in {"push", "wait"} \/ (pc = "done" /\ ret = NilErr) \/ sent # <<>>)
              => Started = 1..workerCount
        /\ \A w \in Workers : wpc[w] = "exited" => (closed /\ imdbChan = <<>>)
        /\ (pc = "done" /\ ret = NilErr) =>
              \A w \in 1..workerCount : wpc[w] = "exited"

\* the first of two ids has just been sent, and the two workers of the run
\* were started before and wait in the receive
C28_Witness ==
    /\ workerCount = 2
    /\ pc = "push"
    /\ pushed = 1
    /\ Len(imdbIDs) = 2
    /\ Started = {1, 2}
    /\ \A w \in Started : wpc[w] = "range"

(* ---------------------------- after a run ----------------------------- *)

\* the ids of the sequence q
Range(q) == {q[k] : k \in DOMAIN q}

\* the fetch of id failed, or its fetch returned a URL and the update failed
ItemFailed(id) == FetchFailed(id) \/ updErr[id] = "error"

\* C29: when the run has returned, every selected id whose fetch or update
\* failed has its row with Poster NULL as before, and the query of a next
\* run, with any limit of at least 1, has a result that holds it.
C29_FailedItemsStaySelectable ==
    pc = "done" =>
        \A id \in Selected :
            ItemFailed(id) =>
                /\ movies[id] = movies0[id]
                /\ id \in Unset(movies)
                /\ \A lim \in Limits \ {0} :
                      \E q \in SelectMissing(movies, lim) : id \in Range(q)

\* the run returned nil with the fetch of one selected id failed and the
\* update of another failed, both rows still without Poster
C29_Witness ==
    /\ pc = "done"
    /\ ret = NilErr
    /\ \E a, b \in Selected :
         /\ FetchFailed(a)
         /\ updErr[b] = "error"
         /\ a \in Unset(movies)
         /\ b \in Unset(movies)

(* ---------------------------- a concurrent run ------------------------ *)

\* a worker of another run of fetchPostersConcurrently, which selected the
\* same id while its Poster was NULL, persists the URL it fetched, another
\* one than the worker of this run holds.  This run does not read the row
\* between its selection and its persist, so the other write is placed right
\* before the persist.
OtherRunPersist ==
    /\ otherPc = "idle"
    /\ pc \notin {"query", "done"}
    /\ \E id \in Ids, url \in {URL_A, URL_B} :
         /\ \E w \in Workers :
              wpc[w] = "update" /\ wid[w] = id /\ wurl[w] # url
         /\ movies' = updatePosterInDB(movies, id, url, NilErr)
         /\ req' = [op |-> "persist", imdbID |-> id, posterURL |-> url]
    /\ otherPc' = "done"
    /\ UNCHANGED <<movies0, workerCount, limit, dispVars, workerVars, histVars,
                   imdbChan, closed, wg, run, firstSel, firstFailure, resp,
                   res, ns, data, out, reply>>

NextWithOtherRun ==
    \/ Next
    \/ OtherRunPersist

SpecWithOtherRun == Init /\ [][NextWithOtherRun]_vars

\* C30: an update step that the database executes sets the Poster of the
\* worker's id to the worker's URL whatever the Poster was before the step,
\* NULL or set; so an id that the other run wrote first, and this run wrote
\* after, has the URL this run fetched.
C30_LastWriterWins ==
    /\ [][\A w \in Workers :
            (UpdateStepOf(w) /\ updErr'[wid[w]] = NilErr) =>
                /\ movies'[wid[w]].Poster = SomePoster(wurl[w])
                /\ \A o \in Ids \ {wid[w]} : movies'[o] = movies[o]]_vars
    /\ [](\A id \in Selected :
            (updCount[id] = 1 /\ updErr[id] = NilErr) =>
                movies[id].Poster = SomePoster(fetchResult[id].posterURL))

\* the other run wrote one URL for a selected id, then this run wrote the
\* other URL, which is the one the row has
C30_Witness ==
    /\ otherPc = "done"
    /\ req.op = "persist"
    /\ req.posterURL = URL_B
    /\ updCount[req.imdbID] = 1
    /\ updErr[req.imdbID] = NilErr
    /\ fetchResult[req.imdbID].posterURL = URL_A
    /\ movies[req.imdbID].Poster = SomePoster(URL_A)

====
